---------------------------- MODULE Spec2Model ----------------------------
(***************************************************************************)
(* Orchestration of jnormcorre motion correction.                          *)
(*                                                                         *)
(* Three entry points are modelled from the sources:                       *)
(*   compute_shifts            (jnormcorre/correct_stack.py)               *)
(*   motion_correct_pipeline   (demos/official_demo_script.py)             *)
(*   main                      (demos/official_demo_script.py)             *)
(* The class motion_correction.MotionCorrect they drive is not part of the *)
(* available sources; its constructor and its motion_correct method are    *)
(* modelled from the design document (validation, chunk planning, template *)
(* estimation, rigid / patch passes, aggregation).                         *)
(*                                                                         *)
(* Physical quantities are integer valued here, so that the float quotient *)
(* a / b of the sources is exact up to the truncation done by int().       *)
(***************************************************************************)
EXTENDS Integers, Sequences, FiniteSets, TLC

VARIABLES
    entry,        \* which entry point runs: "compute_shifts", "pipeline", "main"
    args,         \* the arguments of the call
    pc,           \* position in the entry point
    err,          \* the exception that ended the call, or "none"
    mc_dict,      \* the keyword configuration handed to MotionCorrect
    state,        \* orchestrator state of the corrector
    chunks,       \* chunk plan: sequence of [start, end) ranges
    iter,         \* template-update iterations begun
    template,     \* generation of the Template in use
    sample,       \* chunks to register in the current iteration / pass
    running,      \* registrations in flight: [chunk, gen] (gen = Template read)
    done,         \* chunks of the current iteration / pass that completed
    candidate,    \* registrations folded into the candidate Template
    shifts_buf,   \* rigid shift records in completion order
    shifts_rig,   \* exposed rigid shift sequence
    shifts_els,   \* exposed per-patch shift sequence
    data_read,    \* some frame of the dataset has been read
    registered,   \* some registration call has been made
    saved,        \* the persisted shifts.npz archive
    result        \* the value returned to the caller

vars == <<entry, args, pc, err, mc_dict, state, chunks, iter, template, sample,
          running, done, candidate, shifts_buf, shifts_rig, shifts_els,
          data_read, registered, saved, result>>

corrector_vars == <<state, chunks, iter, template, sample, running, done,
                    candidate, shifts_buf, shifts_rig, shifts_els,
                    data_read, registered>>

-----------------------------------------------------------------------------
(* Bounds of the model *)

MaxT == 3
MaxFps == 2
MaxReq == 4
MaxIter == 2
MaxStride == 2
FovSide == 3
LargeFov == 128
MaxPix == 2
MaxUm == 3

(* Program constants *)

CSNiterRig == 4
CSMaxShiftUm == 12
CSPatchMotionUm == 100
CSOverlap == 24
DemoDxy == 2
DemoPatchMotionUm == 50
DemoMaxShiftUm == 12
DemoFramesPerSplit == 1000
DemoNumSplits == 5
DemoNiterRig == 4
TestFrames == 500
TestSplits == 4
TestMaxShiftUm == 6
TestNx == 30
TestNy == 20

-----------------------------------------------------------------------------
(* Values *)

None == <<>>
Some(v) == <<v>>

Abs(x) == IF x < 0 THEN -x ELSE x
Min(a, b) == IF a <= b THEN a ELSE b

\* A physical quantity as the caller passes it: a scalar x, or a 2-tuple (x, y).
Scalar(v) == [isTuple |-> FALSE, x |-> v, y |-> 0]
Pair(a, b) == [isTuple |-> TRUE, x |-> a, y |-> b]
Forms(S) == {Scalar(v) : v \in S} \cup {Pair(a, b) : a \in S, b \in S}

-----------------------------------------------------------------------------
(* Arithmetic of the sources *)

\* floor(a / b) for b > 0
FloorDiv(a, b) == IF a >= 0 THEN a \div b ELSE -((b - 1 - a) \div b)

\* math.ceil(a / b) and int(np.ceil(a / b)), b # 0
CeilDiv(a, b) == IF b > 0 THEN -FloorDiv(-a, b) ELSE -FloorDiv(a, -b)

\* Variant: a // b, the quotient rounded toward minus infinity
IntDivFloor(a, b) == IF b > 0 THEN FloorDiv(a, b) ELSE FloorDiv(-a, -b)

\* int(a / b): the float quotient truncated toward zero, b # 0
IntDiv(a, b) ==
    LET q == Abs(a) \div Abs(b)
    IN  IF (a < 0) # (b < 0) THEN -q ELSE q

\* round(n / 4) of Python 3 (ties go to the even neighbour), n >= 0
RoundQuarter(n) ==
    LET q == n \div 4
        r == n % 4
    IN  IF r < 2 THEN q
        ELSE IF r > 2 THEN q + 1
        ELSE IF q % 2 = 0 THEN q ELSE q + 1

\* Variant: total_frames // frames_per_split, which drops a trailing partial chunk
NumChunksFloor(total_frames, frames_per_split) ==
    IF frames_per_split > 0 THEN FloorDiv(total_frames, frames_per_split)
    ELSE FloorDiv(-total_frames, -frames_per_split)

\* splits = math.ceil(total_frames / frames_per_split): the number of chunks
NumChunks(total_frames, frames_per_split) == CeilDiv(total_frames, frames_per_split)

\* Variant: the splits argument handed on unconverted
CSSplitsRaw(nt, splits) == splits

\* splits = int(np.ceil(nt / splits)) of compute_shifts
CSSplits(nt, splits) == NumChunks(nt, splits)

\* A quantity used as passed: a 2-tuple is a pair, a scalar is not iterable
AsIs(q) == IF q.isTuple THEN <<q.x, q.y>> ELSE <<q.x>>

\* if not isinstance(q, tuple): q = (q, q)
Broadcast(q) == IF q.isTuple THEN <<q.x, q.y>> ELSE <<q.x, q.x>>

\* pixel_size_um, max_shift_um and patch_motion_um as they reach the two zip() calls
PixelSizeUm(q) == Broadcast(q)
\* Variant: max_shift_um without its isinstance branch
MaxShiftUmAsIs(q) == AsIs(q)
MaxShiftUm(q) == Broadcast(q)
PatchMotionUm(q) == AsIs(q)

\* zip(a, b) iterates both arguments
Iterable(v) == Len(v) = 2

\* [int(a / b) for a, b in zip(um, pix)] on two 2-tuples
ToPixels(um, pix) == <<IntDiv(um[1], pix[1]), IntDiv(um[2], pix[2])>>

\* Variant: the requested count handed on unclipped
ResolveNoClip(requested, splits) == requested

\* min(num_splits_to_process, splits)
ResolveSplits(requested, splits) == Min(requested, splits)

\* Variant: compute_shifts requesting the patch pass
CSPwRigidOn == TRUE

\* MotionCorrect(stack.T, pw_rigid=False, **mc_dict)
CSPwRigid == FALSE

-----------------------------------------------------------------------------
(* compute_shifts, lines 36-63: the outcome of parameter translation *)

Raise(e) == [err |-> e, dict |-> <<>>]

CSTranslate(a) ==
    IF a.fps = 0 THEN Raise("ZeroDivisionError")
    ELSE
    LET splits == CSSplits(a.T, a.fps)
        pixel_size_um == PixelSizeUm(a.pixel_size_um)
        max_shift_um == MaxShiftUm(a.max_shift_um)
        patch_motion_um == PatchMotionUm(a.patch_motion_um)
    IN  IF ~Iterable(max_shift_um) \/ ~Iterable(pixel_size_um)
        THEN Raise("TypeError")
        ELSE IF pixel_size_um[1] = 0 \/ pixel_size_um[2] = 0
        THEN Raise("ZeroDivisionError")
        ELSE IF ~Iterable(patch_motion_um)
        THEN Raise("TypeError")
        ELSE [err |-> "none",
              dict |-> [niter_rig |-> CSNiterRig,
                        num_splits_to_process_els |-> None,
                        num_splits_to_process_rig |-> None,
                        splits_els |-> splits,
                        splits_rig |-> splits,
                        max_shifts |-> ToPixels(max_shift_um, pixel_size_um),
                        strides |-> ToPixels(patch_motion_um, pixel_size_um),
                        overlaps |-> a.overlaps,
                        pw_rigid |-> CSPwRigid]]

(* motion_correct_pipeline, lines 106-133 *)

PipelineTranslate(a) ==
    IF a.fps = 0 THEN Raise("ZeroDivisionError")
    ELSE
    LET splits == NumChunks(a.T, a.fps)
    IN  [err |-> "none",
         dict |-> [niter_rig |-> a.niter_rig,
                   num_splits_to_process_els |-> Some(ResolveSplits(a.req_els, splits)),
                   num_splits_to_process_rig |-> Some(ResolveSplits(a.req_rig, splits)),
                   splits_els |-> splits,
                   splits_rig |-> splits,
                   max_shifts |-> a.max_shifts,
                   strides |-> a.strides,
                   overlaps |-> a.overlaps,
                   pw_rigid |-> a.pw_rigid]]

(* main, lines 161-179: the physical-parameter branch *)

DemoStrides == ToPixels(<<DemoPatchMotionUm, DemoPatchMotionUm>>, <<DemoDxy, DemoDxy>>)
DemoMaxShifts == ToPixels(<<DemoMaxShiftUm, DemoMaxShiftUm>>, <<DemoDxy, DemoDxy>>)
DemoOverlaps == <<RoundQuarter(DemoStrides[1]), RoundQuarter(DemoStrides[2])>>

-----------------------------------------------------------------------------
(* Initial states: a call of one entry point with its arguments *)

Args(T, H, W, fps, rr, re, pw, st, ov, ni, ms, px, msu, pmu) ==
    [T |-> T, H |-> H, W |-> W, fps |-> fps, req_rig |-> rr, req_els |-> re,
     pw_rigid |-> pw, strides |-> st, overlaps |-> ov, niter_rig |-> ni,
     max_shifts |-> ms, pixel_size_um |-> px, max_shift_um |-> msu,
     patch_motion_um |-> pmu]

Fresh ==
    /\ err = "none"
    /\ mc_dict = <<>>
    /\ state = "UNCONFIGURED"
    /\ chunks = <<>>
    /\ iter = 0
    /\ template = 0
    /\ sample = {}
    /\ running = {}
    /\ done = {}
    /\ candidate = {}
    /\ shifts_buf = <<>>
    /\ shifts_rig = <<>>
    /\ shifts_els = None
    /\ data_read = FALSE
    /\ registered = FALSE
    /\ saved = None
    /\ result = None

FrameCounts == 1..MaxT
ChunkSizes == (-1)..MaxFps
Requests == 1..MaxReq
StrideVals == 1..MaxStride
PixVals == {-MaxPix, 0, 1, MaxPix}
UmVals == {-MaxUm, 1, MaxUm}

\* motion_correct_pipeline(lazy_dataset, outdir, max_shifts, ...)
InitPipeline ==
    /\ entry = "pipeline"
    /\ pc = "start"
    /\ \E T \in FrameCounts, fps \in ChunkSizes, rr \in Requests,
          re \in {1, MaxReq}, pw \in BOOLEAN, s0 \in StrideVals,
          s1 \in StrideVals, ni \in 0..MaxIter :
          args = Args(T, FovSide, FovSide, fps, rr, re, pw, <<s0, s1>>, <<1, 1>>,
                      ni, <<6, 6>>, Pair(1, 1), Pair(1, 1), Pair(1, 1))
    /\ Fresh

\* compute_shifts(stack, pixel_size_um) with the defaults of its signature
InitComputeShifts ==
    /\ entry = "compute_shifts"
    /\ pc = "start"
    /\ \E T \in FrameCounts, fps \in ChunkSizes, side \in {FovSide, LargeFov} :
          args = Args(T, side, side, fps, 0, 0, FALSE, <<0, 0>>,
                      <<CSOverlap, CSOverlap>>, CSNiterRig, <<0, 0>>, Scalar(1),
                      Pair(CSMaxShiftUm, CSMaxShiftUm),
                      Pair(CSPatchMotionUm, CSPatchMotionUm))
    /\ Fresh

\* main() on a dataset of some shape
InitMain ==
    /\ entry = "main"
    /\ pc = "main"
    /\ \E T \in FrameCounts, side \in {FovSide, LargeFov} :
          args = Args(T, side, side, 0, 0, 0, FALSE, <<0, 0>>, <<0, 0>>, 0,
                      <<0, 0>>, Pair(DemoDxy, DemoDxy),
                      Pair(DemoMaxShiftUm, DemoMaxShiftUm),
                      Pair(DemoPatchMotionUm, DemoPatchMotionUm))
    /\ Fresh

Init == InitPipeline \/ InitComputeShifts \/ InitMain

\* compute_shifts over the forms of its physical arguments, on a one-frame stack
InitTranslate ==
    \/ /\ entry = "compute_shifts"
       /\ pc = "start"
       /\ \E px \in Forms(PixVals), msu \in Forms(UmVals), pmu \in Forms(UmVals) :
             args = Args(1, FovSide, FovSide, 1, 0, 0, FALSE, <<0, 0>>,
                         <<CSOverlap, CSOverlap>>, CSNiterRig, <<0, 0>>, px, msu, pmu)
       /\ Fresh
    \/ InitMain

\* compute_shifts(dat, pixel_size_um=1., max_shift_um=6., splits=4) on a (30, 20, 500) stack
InitTest ==
    /\ entry = "compute_shifts"
    /\ pc = "start"
    /\ args = Args(TestFrames, TestNy, TestNx, TestSplits, 0, 0, FALSE, <<0, 0>>,
                   <<CSOverlap, CSOverlap>>, CSNiterRig, <<0, 0>>, Scalar(1),
                   Scalar(TestMaxShiftUm), Pair(CSPatchMotionUm, CSPatchMotionUm))
    /\ Fresh

-----------------------------------------------------------------------------
(* Entry points (from the sources) *)

\* main: derive the pixel parameters and call motion_correct_pipeline with them
MainParams ==
    /\ entry = "main"
    /\ pc = "main"
    /\ args' = [args EXCEPT !.strides = DemoStrides,
                            !.max_shifts = DemoMaxShifts,
                            !.overlaps = DemoOverlaps,
                            !.pw_rigid = TRUE,
                            !.fps = DemoFramesPerSplit,
                            !.req_els = DemoNumSplits,
                            !.req_rig = DemoNumSplits,
                            !.niter_rig = DemoNiterRig]
    /\ pc' = "start"
    /\ UNCHANGED <<entry, err, mc_dict, saved, result>>
    /\ UNCHANGED corrector_vars

\* compute_shifts up to the construction of mc_dict
CSConfigure ==
    /\ entry = "compute_shifts"
    /\ pc = "start"
    /\ LET out == CSTranslate(args)
       IN  /\ err' = out.err
           /\ mc_dict' = out.dict
           /\ pc' = IF out.err = "none" THEN "configured" ELSE "raised"
    /\ UNCHANGED <<entry, args, saved, result>>
    /\ UNCHANGED corrector_vars

\* motion_correct_pipeline up to the construction of mc_dict
PipelineConfigure ==
    /\ entry \in {"pipeline", "main"}
    /\ pc = "start"
    /\ LET out == PipelineTranslate(args)
       IN  /\ err' = out.err
           /\ mc_dict' = out.dict
           /\ pc' = IF out.err = "none" THEN "configured" ELSE "raised"
    /\ UNCHANGED <<entry, args, saved, result>>
    /\ UNCHANGED corrector_vars

-----------------------------------------------------------------------------
(* MotionCorrect (from the design document) *)

\* The configuration is invalid: patch geometry, niter_rig, chunk size
InvalidGeometry(d, H, W) ==
    /\ d.pw_rigid
    /\ \/ d.strides[1] + d.overlaps[1] >= H
       \/ d.strides[2] + d.overlaps[2] >= W

InvalidConfig(d, H, W) ==
    \/ InvalidGeometry(d, H, W)
    \/ d.niter_rig < 1
    \/ d.splits_rig < 1

\* corrector = motion_correction.MotionCorrect(dataset, **mc_dict)
Construct ==
    /\ pc = "configured"
    /\ IF InvalidConfig(mc_dict, args.H, args.W)
       THEN /\ pc' = "raised"
            /\ err' = "ConfigurationError"
            /\ state' = state
       ELSE /\ pc' = "constructed"
            /\ err' = err
            /\ state' = "CONFIGURED"
    /\ UNCHANGED <<entry, args, mc_dict, chunks, iter, template, sample, running,
                   done, candidate, shifts_buf, shifts_rig, shifts_els,
                   data_read, registered, saved, result>>

Covered == IF chunks = <<>> THEN 0 ELSE chunks[Len(chunks)].end

\* plan(T, frames_per_split): the next chunk [start, end)
PlanChunk ==
    /\ pc = "constructed"
    /\ state = "CONFIGURED"
    /\ Covered < args.T
    /\ LET c == [start |-> Covered, end |-> Min(Covered + args.fps, args.T)]
       IN  /\ chunks' = Append(chunks, c)
           /\ state' = IF c.end = args.T THEN "CHUNKED" ELSE state
    /\ UNCHANGED <<entry, args, pc, err, mc_dict, iter, template, sample, running,
                   done, candidate, shifts_buf, shifts_rig, shifts_els,
                   data_read, registered, saved, result>>

\* Chunks sampled per template-update iteration; None samples every chunk
SampleSize ==
    IF mc_dict.num_splits_to_process_rig = None
    THEN Len(chunks)
    ELSE mc_dict.num_splits_to_process_rig[1]

\* An iteration of template estimation begins: draw its chunks
BeginIteration ==
    /\ pc = "constructed"
    /\ state \in {"CHUNKED", "TEMPLATE_ESTIMATING"}
    /\ sample = {}
    /\ iter < mc_dict.niter_rig
    /\ \E S \in SUBSET (1..Len(chunks)) :
          /\ Cardinality(S) = SampleSize
          /\ sample' = S
    /\ iter' = iter + 1
    /\ state' = "TEMPLATE_ESTIMATING"
    /\ UNCHANGED <<entry, args, pc, err, mc_dict, chunks, template, running, done,
                   candidate, shifts_buf, shifts_rig, shifts_els, data_read,
                   registered, saved, result>>

\* A worker reads the frames of chunk c and the Template in use
StartChunk(c) ==
    /\ pc = "constructed"
    /\ state \in {"TEMPLATE_ESTIMATING", "RIGID_CORRECTING"}
    /\ c \in sample \ done
    /\ \A r \in running : r.chunk # c
    /\ running' = running \cup {[chunk |-> c, gen |-> template]}
    /\ data_read' = TRUE
    /\ UNCHANGED <<entry, args, pc, err, mc_dict, state, chunks, iter, template,
                   sample, done, candidate, shifts_buf, shifts_rig, shifts_els,
                   registered, saved, result>>

\* register(frame, template, bounds): the displacement (dy, dx) of frame f
EngineShift(f) == [frame |-> f, dy |-> (f % 2) + 1, dx |-> -(f % 3)]

ChunkRecords(c) ==
    [i \in 1..(chunks[c].end - chunks[c].start) |-> EngineShift(chunks[c].start + i - 1)]

\* The registration of a chunk completes
FinishChunk(r) ==
    /\ pc = "constructed"
    /\ r \in running
    /\ running' = running \ {r}
    /\ done' = done \cup {r.chunk}
    /\ registered' = TRUE
    /\ IF state = "TEMPLATE_ESTIMATING"
       THEN /\ candidate' = candidate \cup {r}
            /\ shifts_buf' = shifts_buf
       ELSE /\ candidate' = candidate
            /\ shifts_buf' = shifts_buf \o ChunkRecords(r.chunk)
    /\ UNCHANGED <<entry, args, pc, err, mc_dict, state, chunks, iter, template,
                   sample, shifts_rig, shifts_els, data_read, saved, result>>

\* Variant: the barrier opens as soon as one chunk has completed
BarrierReachedEarly == sample # {} /\ done # {}

\* Every chunk sampled for the iteration has completed
BarrierReached == sample # {} /\ running = {} /\ done = sample

\* The candidate replaces the Template at the iteration boundary
UpdateTemplate ==
    /\ pc = "constructed"
    /\ state = "TEMPLATE_ESTIMATING"
    /\ BarrierReached
    /\ template' = template + 1
    /\ sample' = {}
    /\ done' = {}
    /\ candidate' = {}
    /\ UNCHANGED <<entry, args, pc, err, mc_dict, state, chunks, iter, running,
                   shifts_buf, shifts_rig, shifts_els, data_read, registered,
                   saved, result>>

\* Template estimation is over: every chunk is registered against the final Template
BeginRigid ==
    /\ pc = "constructed"
    /\ state = "TEMPLATE_ESTIMATING"
    /\ sample = {}
    /\ running = {}
    /\ iter = mc_dict.niter_rig
    /\ state' = "RIGID_CORRECTING"
    /\ sample' = 1..Len(chunks)
    /\ UNCHANGED <<entry, args, pc, err, mc_dict, chunks, iter, template, running,
                   done, candidate, shifts_buf, shifts_rig, shifts_els, data_read,
                   registered, saved, result>>

\* The patch pass, entered only with pw_rigid
PatchCorrect ==
    /\ pc = "constructed"
    /\ state = "RIGID_CORRECTING"
    /\ BarrierReached
    /\ mc_dict.pw_rigid
    /\ state' = "PATCH_CORRECTING"
    /\ shifts_els' = Some([i \in 1..args.T |-> i - 1])
    /\ UNCHANGED <<entry, args, pc, err, mc_dict, chunks, iter, template, sample,
                   running, done, candidate, shifts_buf, shifts_rig, data_read,
                   registered, saved, result>>

RECURSIVE Insert(_, _)
Insert(rec, s) ==
    IF s = <<>> THEN <<rec>>
    ELSE IF rec.frame <= Head(s).frame THEN <<rec>> \o s
    ELSE <<Head(s)>> \o Insert(rec, Tail(s))

RECURSIVE SortByFrame(_)
SortByFrame(s) == IF s = <<>> THEN <<>> ELSE Insert(Head(s), SortByFrame(Tail(s)))

\* The records are re-sorted by frame index and exposed
Aggregate ==
    /\ pc = "constructed"
    /\ \/ state = "PATCH_CORRECTING"
       \/ state = "RIGID_CORRECTING" /\ BarrierReached /\ ~mc_dict.pw_rigid
    /\ state' = "AGGREGATED"
    /\ shifts_rig' = SortByFrame(shifts_buf)
    /\ UNCHANGED <<entry, args, pc, err, mc_dict, chunks, iter, template, sample,
                   running, done, candidate, shifts_buf, shifts_els, data_read,
                   registered, saved, result>>

\* motion_correct returns
Finish ==
    /\ pc = "constructed"
    /\ state = "AGGREGATED"
    /\ state' = "DONE"
    /\ pc' = "corrected"
    /\ UNCHANGED <<entry, args, err, mc_dict, chunks, iter, template, sample,
                   running, done, candidate, shifts_buf, shifts_rig, shifts_els,
                   data_read, registered, saved, result>>

-----------------------------------------------------------------------------
(* After the correction (from the sources) *)

\* np.savez(shifts.npz, shifts_rig=..., x_shifts_els=... if pw_rigid else None, ...)
SaveShifts ==
    /\ entry \in {"pipeline", "main"}
    /\ pc = "corrected"
    /\ saved' = Some([shifts_rig |-> shifts_rig,
                      x_shifts_els |-> IF args.pw_rigid THEN shifts_els ELSE None])
    /\ pc' = "saved"
    /\ UNCHANGED <<entry, args, err, mc_dict, result>>
    /\ UNCHANGED corrector_vars

\* return corrector_obj, target_file
PipelineReturn ==
    /\ entry \in {"pipeline", "main"}
    /\ pc = "saved"
    /\ result' = Some([template |-> template])
    /\ pc' = "returned"
    /\ UNCHANGED <<entry, args, err, mc_dict, saved>>
    /\ UNCHANGED corrector_vars

\* Variant: the first record sliced off, corrector.shifts_rig[1:]
ReturnShiftsSkipFirst(rig) ==
    [shifts_x |-> [i \in 1..(Len(rig) - 1) |-> -rig[i + 1].dx],
     shifts_y |-> [i \in 1..(Len(rig) - 1) |-> -rig[i + 1].dy]]

\* shifts_y, shifts_x = - np.vstack(corrector.shifts_rig).T
ReturnShifts(rig) ==
    [shifts_x |-> [i \in 1..Len(rig) |-> -rig[i].dx],
     shifts_y |-> [i \in 1..Len(rig) |-> -rig[i].dy]]

\* return shifts_x, shifts_y
CSReturn ==
    /\ entry = "compute_shifts"
    /\ pc = "corrected"
    /\ result' = Some(ReturnShifts(shifts_rig))
    /\ pc' = "returned"
    /\ UNCHANGED <<entry, args, err, mc_dict, saved>>
    /\ UNCHANGED corrector_vars

-----------------------------------------------------------------------------
(* Specifications *)

Next ==
    \/ MainParams
    \/ CSConfigure
    \/ PipelineConfigure
    \/ Construct
    \/ PlanChunk
    \/ BeginIteration
    \/ \E c \in 1..Len(chunks) : StartChunk(c)
    \/ \E r \in running : FinishChunk(r)
    \/ UpdateTemplate
    \/ BeginRigid
    \/ PatchCorrect
    \/ Aggregate
    \/ Finish
    \/ SaveShifts
    \/ PipelineReturn
    \/ CSReturn

\* Calls of the three entry points over the bounded arguments
Spec == Init /\ [][Next]_vars

\* compute_shifts over scalar and 2-tuple forms of its physical arguments
SpecTranslate == InitTranslate /\ [][Next]_vars

\* The configuration and chunk planning of the test's call
NextTest == CSConfigure \/ Construct \/ PlanChunk

SpecTest == InitTest /\ [][NextTest]_vars

-----------------------------------------------------------------------------
(* Properties *)

Translated == pc \notin {"main", "start"} /\ err \notin {"ZeroDivisionError", "TypeError"}
Planned == state \notin {"UNCONFIGURED", "CONFIGURED"}
ViaPipeline == entry \in {"pipeline", "main"}

\* n = ceil(t / f), for f > 0
IsCeilOf(n, t, f) == n * f >= t /\ (n - 1) * f < t

\* q = floor(a / b), b # 0
IsFloorOf(q, a, b) ==
    IF b > 0 THEN q * b <= a /\ a < (q + 1) * b
    ELSE q * b >= a /\ a > (q + 1) * b

\* q = a / b truncated toward zero, b # 0
IsTruncOf(q, a, b) ==
    /\ Abs(q) * Abs(b) <= Abs(a)
    /\ Abs(a) < (Abs(q) + 1) * Abs(b)
    /\ q > 0 => (a > 0) = (b > 0)
    /\ q < 0 => (a > 0) # (b > 0)

\* The 2-tuple (v, v) for a scalar v
AsPair(q) == IF q.isTuple THEN q ELSE Pair(q.x, q.x)

ChunkLen(i) == chunks[i].end - chunks[i].start

C2_EagerGeometry ==
    (/\ ViaPipeline
     /\ pc \notin {"main", "start"}
     /\ args.pw_rigid
     /\ \/ args.strides[1] + args.overlaps[1] >= args.H
        \/ args.strides[2] + args.overlaps[2] >= args.W)
    => /\ pc \in {"configured", "raised"}
       /\ pc = "raised" => err = "ConfigurationError"
       /\ ~data_read
       /\ ~registered

\* C3 (as claimed): every scalar / 2-tuple combination of pixel_size_um,
\* max_shift_um and patch_motion_um is accepted by compute_shifts and gives the
\* max_shifts and strides of the all-tuple call.
C3_AllFormsAccepted ==
    (/\ entry = "compute_shifts"
     /\ pc # "start"
     /\ args.pixel_size_um.x # 0
     /\ args.pixel_size_um.isTuple => args.pixel_size_um.y # 0)
    => LET t == CSTranslate([args EXCEPT !.pixel_size_um = AsPair(@),
                                         !.max_shift_um = AsPair(@),
                                         !.patch_motion_um = AsPair(@)])
       IN  /\ Translated
           /\ mc_dict.max_shifts = t.dict.max_shifts
           /\ mc_dict.strides = t.dict.strides

\* C3 (amended): a scalar pixel_size_um or max_shift_um gives compute_shifts the
\* outcome (max_shifts and strides, or the error) of the 2-tuple (v, v);
\* patch_motion_um is taken as passed, and a scalar one raises TypeError as soon
\* as the strides are computed.
C3_ScalarBroadcast ==
    (entry = "compute_shifts" /\ pc \in {"configured", "raised"}) =>
       LET t == CSTranslate([args EXCEPT !.pixel_size_um = AsPair(@),
                                         !.max_shift_um = AsPair(@)])
           px == AsPair(args.pixel_size_um)
       IN  /\ pc = "raised" => err = t.err
           /\ pc = "configured" =>
                 /\ t.err = "none"
                 /\ mc_dict.max_shifts = t.dict.max_shifts
                 /\ mc_dict.strides = t.dict.strides
           /\ (~args.patch_motion_um.isTuple /\ px.x # 0 /\ px.y # 0) =>
                 pc = "raised" /\ err = "TypeError"
           /\ (args.patch_motion_um.isTuple /\ px.x # 0 /\ px.y # 0) =>
                 pc = "configured"

C3_Witness ==
    /\ entry = "compute_shifts"
    /\ pc = "configured"
    /\ ~args.pixel_size_um.isTuple
    /\ ~args.max_shift_um.isTuple
    /\ args.patch_motion_um.isTuple
    /\ mc_dict.max_shifts = <<1, 1>>
    /\ mc_dict.strides = <<-1, 1>>

\* C4: the sampling counts the pipeline configures never exceed the number of
\* chunks and equal the request when the request fits; resolving them raises
\* nothing; compute_shifts requests no count (None), which samples every chunk.
C4_Saturating ==
    /\ (ViaPipeline /\ pc \notin {"main", "start"} /\ args.fps # 0) =>
          /\ Translated
          /\ mc_dict.num_splits_to_process_rig # None
          /\ mc_dict.num_splits_to_process_els # None
          /\ LET n == mc_dict.splits_rig
                 rig == mc_dict.num_splits_to_process_rig[1]
                 els == mc_dict.num_splits_to_process_els[1]
             IN  /\ rig <= n
                 /\ els <= n
                 /\ args.req_rig <= n => rig = args.req_rig
                 /\ args.req_els <= n => els = args.req_els
    /\ (entry = "compute_shifts" /\ Translated) =>
          /\ mc_dict.num_splits_to_process_rig = None
          /\ mc_dict.num_splits_to_process_els = None
    /\ Planned => SampleSize <= Len(chunks)

C4_Witness ==
    /\ entry = "pipeline"
    /\ state = "TEMPLATE_ESTIMATING"
    /\ args.req_rig > mc_dict.splits_rig
    /\ mc_dict.splits_rig = 2
    /\ mc_dict.num_splits_to_process_rig = Some(2)
    /\ Cardinality(sample) = 2

\* C5 (as claimed): a call with niter_rig < 1 or frames_per_split <= 0 ends with
\* a ConfigurationError and with nothing else, before any chunking, frame read
\* or registration.
C5_RejectNonPositive ==
    (pc \notin {"main", "start"} /\ (args.niter_rig < 1 \/ args.fps <= 0)) =>
       /\ pc \in {"configured", "raised"}
       /\ pc = "raised" => err = "ConfigurationError"
       /\ state = "UNCONFIGURED"
       /\ chunks = <<>>
       /\ ~data_read
       /\ ~registered

\* C6 (as claimed): in the test's call (500 frames, splits=4) the chunks of the
\* run are 125 frames long.
C6_Chunks125Frames ==
    \A i \in 1..Len(chunks) : ChunkLen(i) = 125

\* C6 (amended): the test's call configures splits_rig = splits_els = 125, the
\* number of chunks, and the 500 frames are divided into 125 chunks of 4 frames.
C6_Chunks4Frames ==
    /\ pc # "start" =>
          /\ err = "none"
          /\ mc_dict.splits_rig = 125
          /\ mc_dict.splits_els = 125
          /\ mc_dict.max_shifts = <<6, 6>>
          /\ ~mc_dict.pw_rigid
    /\ \A i \in 1..Len(chunks) : ChunkLen(i) = 4
    /\ state = "CHUNKED" => Len(chunks) = 125

C6_Witness ==
    /\ state = "CHUNKED"
    /\ args.T = 500
    /\ args.fps = 4
    /\ Len(chunks) = 125
    /\ chunks[125] = [start |-> 496, end |-> 500]

PhysicalPairs ==
    <<AsPair(args.max_shift_um), AsPair(args.patch_motion_um), AsPair(args.pixel_size_um)>>

\* C7 (as claimed): max_shifts and strides are the floor of the per-axis quotient
\* physical value / pixel size.
C7_Floor ==
    (entry = "compute_shifts" /\ pc = "configured") =>
       LET ms == PhysicalPairs[1]
           pm == PhysicalPairs[2]
           px == PhysicalPairs[3]
       IN  /\ IsFloorOf(mc_dict.max_shifts[1], ms.x, px.x)
           /\ IsFloorOf(mc_dict.max_shifts[2], ms.y, px.y)
           /\ IsFloorOf(mc_dict.strides[1], pm.x, px.x)
           /\ IsFloorOf(mc_dict.strides[2], pm.y, px.y)

\* C7 (amended): max_shifts and strides are the per-axis quotient physical value /
\* pixel size truncated toward zero, in compute_shifts and in the demo; that is
\* the floor whenever the quotient is not negative.
C7_Trunc ==
    /\ (entry = "compute_shifts" /\ pc = "configured") =>
          LET ms == PhysicalPairs[1]
              pm == PhysicalPairs[2]
              px == PhysicalPairs[3]
              Ok(q, a, b) == /\ IsTruncOf(q, a, b)
                             /\ (a >= 0) = (b > 0) => IsFloorOf(q, a, b)
                             /\ ~IsFloorOf(q, a, b) => IsFloorOf(q - 1, a, b)
          IN  /\ Ok(mc_dict.max_shifts[1], ms.x, px.x)
              /\ Ok(mc_dict.max_shifts[2], ms.y, px.y)
              /\ Ok(mc_dict.strides[1], pm.x, px.x)
              /\ Ok(mc_dict.strides[2], pm.y, px.y)
    /\ (entry = "main" /\ pc # "main") =>
          /\ IsTruncOf(args.strides[1], DemoPatchMotionUm, DemoDxy)
          /\ IsTruncOf(args.strides[2], DemoPatchMotionUm, DemoDxy)
          /\ IsTruncOf(args.max_shifts[1], DemoMaxShiftUm, DemoDxy)
          /\ IsTruncOf(args.max_shifts[2], DemoMaxShiftUm, DemoDxy)
          /\ IsFloorOf(args.strides[1], DemoPatchMotionUm, DemoDxy)
          /\ IsFloorOf(args.max_shifts[1], DemoMaxShiftUm, DemoDxy)

C7_Witness ==
    /\ entry = "compute_shifts"
    /\ pc = "configured"
    /\ args.max_shift_um = Pair(-MaxUm, MaxUm)
    /\ args.pixel_size_um = Scalar(MaxPix)
    /\ mc_dict.max_shifts[1] = -(MaxUm \div MaxPix)
    /\ ~IsFloorOf(mc_dict.max_shifts[1], -MaxUm, MaxPix)

Exposed(rig) ==
    /\ Len(rig) = args.T
    /\ \A i \in 1..Len(rig) : rig[i] = EngineShift(i - 1)

C8_Ordered ==
    /\ \A i, j \in 1..Len(shifts_buf) : i # j => shifts_buf[i].frame # shifts_buf[j].frame
    /\ state \in {"AGGREGATED", "DONE"} => Exposed(shifts_rig)
    /\ saved # None => Exposed(saved[1].shifts_rig)
    /\ (entry = "compute_shifts" /\ pc = "returned") =>
          /\ Len(result[1].shifts_x) = args.T
          /\ Len(result[1].shifts_y) = args.T
          /\ \A i \in 1..args.T :
                /\ result[1].shifts_x[i] = -EngineShift(i - 1).dx
                /\ result[1].shifts_y[i] = -EngineShift(i - 1).dy

C8_AppendOnly ==
    /\ Len(shifts_buf') >= Len(shifts_buf)
    /\ SubSeq(shifts_buf', 1, Len(shifts_buf)) = shifts_buf
    /\ shifts_rig # <<>> => shifts_rig' = shifts_rig

\* C8: whatever the order in which the chunks complete, the rigid shift
\* sequence exposed, persisted and returned has one record per frame, T in all,
\* in ascending frame order; records are appended and never revised.
C8_ShiftOrder == [][C8_AppendOnly]_vars /\ []C8_Ordered

C8_Witness ==
    /\ entry = "compute_shifts"
    /\ pc = "returned"
    /\ args.T = 3
    /\ Len(chunks) = 3
    /\ shifts_buf[1].frame = 2
    /\ shifts_buf[2].frame = 0

Successors ==
    {<<"UNCONFIGURED", "CONFIGURED">>, <<"CONFIGURED", "CHUNKED">>,
     <<"CHUNKED", "TEMPLATE_ESTIMATING">>,
     <<"TEMPLATE_ESTIMATING", "RIGID_CORRECTING">>,
     <<"RIGID_CORRECTING", "PATCH_CORRECTING">>,
     <<"RIGID_CORRECTING", "AGGREGATED">>,
     <<"PATCH_CORRECTING", "AGGREGATED">>, <<"AGGREGATED", "DONE">>}

C9_Step ==
    /\ state' # state => <<state, state'>> \in Successors
    /\ state' = "PATCH_CORRECTING" => args.pw_rigid /\ entry # "compute_shifts"
    /\ (state = "RIGID_CORRECTING" /\ state' = "AGGREGATED") => ~args.pw_rigid

C9_Persisted ==
    /\ saved # None => state = "DONE"
    /\ result # None => state = "DONE"
    /\ state = "PATCH_CORRECTING" => ViaPipeline

\* C9: the orchestrator state only moves forward along CONFIGURED, CHUNKED,
\* TEMPLATE_ESTIMATING, RIGID_CORRECTING, (PATCH_CORRECTING), AGGREGATED, DONE;
\* PATCH_CORRECTING is entered only with pw_rigid, never from compute_shifts,
\* and shifts are persisted or returned only in DONE.
C9_Forward == [][C9_Step]_vars /\ []C9_Persisted

C9_Witness ==
    /\ entry = "pipeline"
    /\ args.pw_rigid
    /\ pc = "returned"
    /\ saved # None
    /\ shifts_els # None

C10_OneGeneration ==
    /\ \A r \in running : r.gen = template
    /\ \A c \in candidate : c.gen = template
    /\ state = "TEMPLATE_ESTIMATING" =>
          template = IF sample = {} THEN iter ELSE iter - 1

C10_Step ==
    /\ template' # template =>
          /\ template' = template + 1
          /\ running = {}
          /\ sample # {}
          /\ {c.chunk : c \in candidate} = sample
    /\ iter' # iter =>
          /\ running = {}
          /\ template = iter
          /\ template' = template

\* C10: a Template is replaced only when every chunk sampled for the iteration
\* has completed against it; iteration k + 1 starts from the output of
\* iteration k; no registration in flight or folded into the candidate has read
\* another generation than the one in use.
C10_Barrier == [][C10_Step]_vars /\ []C10_OneGeneration

C10_Witness ==
    /\ state = "TEMPLATE_ESTIMATING"
    /\ iter = 2
    /\ template = 1
    /\ Cardinality(running) = 2
    /\ Cardinality(candidate) = 1

=============================================================================
